---- MODULE Spec2Model ----
(***************************************************************************)
(* The drag-to-scroll gesture controller of Starpointer (useDragScroll in  *)
(* src/App.tsx): the closure variables of one attached controller, the     *)
(* parts of the container element and of document.body it reads and        *)
(* writes, and one action per registered listener, per host callback       *)
(* (click dispatch, the zero-delay timer) and for the effect cleanup.      *)
(* TwoSpec is the pair of attachments App makes, which share               *)
(* document.body.style.userSelect.                                         *)
(***************************************************************************)
EXTENDS FiniteSets, Integers, Naturals, Sequences, TLC

\* ------------------------------------------------------------------ bounds
\* Largest clientY an event carries (coordinates are 0..MaxY).
MaxY == 3
\* Largest scroll offset of the container (scrollHeight - clientHeight).
MaxScroll == 1
\* Most click interceptors whose zero-delay timer is still pending.
MaxPending == 1

\* ------------------------------------------------------- program constants
\* Math.abs(deltaY) > 2
DragThreshold == 2

Null == "null"
\* The null of pointerIdentifier (pointer ids are positive numbers).
NoPointer == 0

PointerIds == {1, 2}
PointerTypes == {"mouse", "pen", "touch"}
Buttons == {0, 2}
\* Where the event target lies: inside the .search-bar sub-element or not.
Targets == {"item", "search"}
Ys == 0..MaxY
\* A pointerdown lands on either edge of the coordinate range: with the moves
\* ranging over Ys, every displacement dy in -MaxY..MaxY occurs.
DownYs == {0, MaxY}
ScrollOffsets == 0..MaxScroll
\* Values of document.body.style.userSelect before any drag.
UserSelectValues == {"", "text"}
\* Identities of the preventClick closures (one per installation).
ListenerIds == 1..MaxPending
\* options.ignoreClosestSelector ?? null, for the attachment to the star
\* list. (The attachment to the details panel passes none: it behaves as
\* this one does when no event target lies in the search bar.)
ignoreSelector == ".search-bar"

VARIABLES
    attached,        \* the five pointer listeners are registered
    c,               \* the closure variables of the effect
    e,               \* the container element
    userSelect,      \* document.body.style.userSelect
    timers,          \* pending setTimeout(..., 0) callbacks, by listener id
    pressed,         \* host: pointers whose pointerdown reached the container
                     \* and whose pointerup/leave/cancel has not yet
    lastEvent,       \* history: the event handled by the last step
    gesture,         \* history: the gesture since the last Idle -> Armed
    instance         \* the two attachments made by App, each with its own
                     \* closure variables, container and timers (TwoSpec)

vars == <<attached, c, e, userSelect, timers, pressed, lastEvent, gesture,
          instance>>

\* The state the handlers read and write, as one value.
World == [c |-> c, e |-> e, userSelect |-> userSelect, timers |-> timers]

\* The attachments of App: 1 is the star list, 2 the details panel.
Instances == {1, 2}

\* What the handlers of attachment i read and write: its own closure
\* variables, container and timers, and the one document.body.style.userSelect.
WorldOf(i) ==
    [c |-> instance[i].c, e |-> instance[i].e, userSelect |-> userSelect,
     timers |-> instance[i].timers]

Abs(x) == IF x < 0 THEN -x ELSE x

\* The element clamps an assigned scrollTop to its scrollable range.
ClampScroll(v) == IF v < 0 THEN 0 ELSE IF v > MaxScroll THEN MaxScroll ELSE v

\* Phase of the state machine, read off the two flags.
Phase(cl) ==
    IF cl.isDragActive THEN "Dragging"
    ELSE IF cl.isPointerDown THEN "Armed"
    ELSE "Idle"

\* ------------------------------------------------------------- the events
\* A pointerdown carries every field the filters of onPointerDown read.
DownEvents ==
    [pointerId : PointerIds, pointerType : PointerTypes, button : Buttons,
     clientY : DownYs, target : Targets]

\* pointermove: the handler reads pointerId and clientY only.
MoveEvents ==
    [pointerId : PointerIds, pointerType : {"mouse"}, button : {0},
     clientY : Ys, target : {"item"}]

\* pointerup, pointerleave, pointercancel: the handlers read pointerId only.
EndEvents ==
    [pointerId : PointerIds, pointerType : {"mouse"}, button : {0},
     clientY : {0}, target : {"item"}]

\* The event of a step that is not a pointer event (no pointer, no target).
NoEvent ==
    [pointerId |-> 0, pointerType |-> Null, button |-> 0, clientY |-> 0,
     target |-> Null]

\* target.closest(selector) finds an ancestor: the target is in the search bar.
Closest(target, selector) == target = "search" /\ selector = ".search-bar"

\* ------------------------------------------------------------ the handlers
\* captureOk: element.setPointerCapture(id) returned (TRUE) or threw (FALSE).
\* beginDrag that forgets classList.add(activeClass).
beginDrag_noClass(w, id, captureOk) ==
    IF w.c.isDragActive THEN w
    ELSE [w EXCEPT !.c.isDragActive = TRUE,
                   !.c.previousUserSelect = w.userSelect,
                   !.userSelect = "none",
                   !.e.capture = IF captureOk THEN @ \cup {id} ELSE @]

\* beginDrag giving up when setPointerCapture throws (no try/catch around it,
\* the request made before anything is written).
beginDrag_needsCapture(w, id, captureOk) ==
    IF w.c.isDragActive \/ ~captureOk THEN w
    ELSE [w EXCEPT !.c.isDragActive = TRUE,
                   !.c.previousUserSelect = w.userSelect,
                   !.userSelect = "none",
                   !.e.hasActiveClass = TRUE,
                   !.e.capture = @ \cup {id}]

beginDrag(w, id, captureOk) ==
    IF w.c.isDragActive THEN w
    ELSE [w EXCEPT !.c.isDragActive = TRUE,
                   !.c.previousUserSelect = w.userSelect,
                   !.userSelect = "none",
                   !.e.hasActiveClass = TRUE,
                   !.e.capture = IF captureOk THEN @ \cup {id} ELSE @]

\* endDrag restoring the saved mode only when it is truthy: an empty saved
\* mode is taken for "nothing saved".
endDrag_truthyRestore(w) ==
    IF ~w.c.isDragActive THEN w
    ELSE [w EXCEPT !.e.capture =
                       IF w.c.pointerIdentifier # NoPointer
                          /\ w.c.pointerIdentifier \in w.e.capture
                       THEN @ \ {w.c.pointerIdentifier} ELSE @,
                   !.e.hasActiveClass = FALSE,
                   !.userSelect =
                       IF w.c.previousUserSelect \notin {Null, ""}
                       THEN w.c.previousUserSelect ELSE @,
                   !.c.previousUserSelect = Null,
                   !.c.isDragActive = FALSE]

\* endDrag that restores the saved mode but forgets previousUserSelect = null.
endDrag_keepsSaved(w) ==
    IF ~w.c.isDragActive THEN w
    ELSE [w EXCEPT !.e.capture =
                       IF w.c.pointerIdentifier # NoPointer
                          /\ w.c.pointerIdentifier \in w.e.capture
                       THEN @ \ {w.c.pointerIdentifier} ELSE @,
                   !.e.hasActiveClass = FALSE,
                   !.userSelect =
                       IF w.c.previousUserSelect # Null
                       THEN w.c.previousUserSelect ELSE @,
                   !.c.isDragActive = FALSE]

\* endDrag that forgets classList.remove(activeClass).
endDrag_keepsClass(w) ==
    IF ~w.c.isDragActive THEN w
    ELSE [w EXCEPT !.e.capture =
                       IF w.c.pointerIdentifier # NoPointer
                          /\ w.c.pointerIdentifier \in w.e.capture
                       THEN @ \ {w.c.pointerIdentifier} ELSE @,
                   !.userSelect =
                       IF w.c.previousUserSelect # Null
                       THEN w.c.previousUserSelect ELSE @,
                   !.c.previousUserSelect = Null,
                   !.c.isDragActive = FALSE]

endDrag(w) ==
    IF ~w.c.isDragActive THEN w
    ELSE [w EXCEPT !.e.capture =
                       IF w.c.pointerIdentifier # NoPointer
                          /\ w.c.pointerIdentifier \in w.e.capture
                       THEN @ \ {w.c.pointerIdentifier} ELSE @,
                   !.e.hasActiveClass = FALSE,
                   !.userSelect =
                       IF w.c.previousUserSelect # Null
                       THEN w.c.previousUserSelect ELSE @,
                   !.c.previousUserSelect = Null,
                   !.c.isDragActive = FALSE]

\* onPointerDown without the closest(ignoreSelector) test.
onPointerDown_noIgnore(w, ev) ==
    IF ev.pointerType = "touch" THEN w
    ELSE IF ev.pointerType = "mouse" /\ ev.button # 0 THEN w
    ELSE [w EXCEPT !.c.isPointerDown = TRUE,
                   !.c.pointerIdentifier = ev.pointerId,
                   !.c.startY = ev.clientY,
                   !.c.startScrollTop = w.e.scrollTop,
                   !.c.suppressClick = FALSE]

\* onPointerDown without the button filter for mouse pointers.
onPointerDown_anyButton(w, ev) ==
    IF ev.pointerType = "touch" THEN w
    ELSE IF ignoreSelector # Null /\ ev.target # Null
            /\ Closest(ev.target, ignoreSelector) THEN w
    ELSE [w EXCEPT !.c.isPointerDown = TRUE,
                   !.c.pointerIdentifier = ev.pointerId,
                   !.c.startY = ev.clientY,
                   !.c.startScrollTop = w.e.scrollTop,
                   !.c.suppressClick = FALSE]

onPointerDown(w, ev) ==
    IF ev.pointerType = "touch" THEN w
    ELSE IF ev.pointerType = "mouse" /\ ev.button # 0 THEN w
    ELSE IF ignoreSelector # Null /\ ev.target # Null
            /\ Closest(ev.target, ignoreSelector) THEN w
    ELSE [w EXCEPT !.c.isPointerDown = TRUE,
                   !.c.pointerIdentifier = ev.pointerId,
                   !.c.startY = ev.clientY,
                   !.c.startScrollTop = w.e.scrollTop,
                   !.c.suppressClick = FALSE]

\* onPointerMove with the threshold test written >= instead of >.
onPointerMove_atThreshold(w, ev, captureOk) ==
    IF ~w.c.isPointerDown \/ w.c.pointerIdentifier # ev.pointerId THEN w
    ELSE LET deltaY == ev.clientY - w.c.startY
             w1 == IF ~w.c.isDragActive /\ Abs(deltaY) >= DragThreshold
                   THEN beginDrag(w, ev.pointerId, captureOk) ELSE w
         IN  IF w1.c.isDragActive
             THEN [w1 EXCEPT !.c.suppressClick = TRUE,
                             !.e.scrollTop = ClampScroll(w1.c.startScrollTop - deltaY)]
             ELSE w1

\* onPointerMove scrolling from the current offset instead of the start offset.
onPointerMove_fromCurrent(w, ev, captureOk) ==
    IF ~w.c.isPointerDown \/ w.c.pointerIdentifier # ev.pointerId THEN w
    ELSE LET deltaY == ev.clientY - w.c.startY
             w1 == IF ~w.c.isDragActive /\ Abs(deltaY) > DragThreshold
                   THEN beginDrag(w, ev.pointerId, captureOk) ELSE w
         IN  IF w1.c.isDragActive
             THEN [w1 EXCEPT !.c.suppressClick = TRUE,
                             !.e.scrollTop = ClampScroll(w1.e.scrollTop - deltaY)]
             ELSE w1

\* onPointerMove scrolling on every move of the owning pointer, dragging or not.
onPointerMove_alwaysScrolls(w, ev, captureOk) ==
    IF ~w.c.isPointerDown \/ w.c.pointerIdentifier # ev.pointerId THEN w
    ELSE LET deltaY == ev.clientY - w.c.startY
             w1 == IF ~w.c.isDragActive /\ Abs(deltaY) > DragThreshold
                   THEN beginDrag(w, ev.pointerId, captureOk) ELSE w
         IN  [w1 EXCEPT !.c.suppressClick = w1.c.isDragActive \/ @,
                        !.e.scrollTop = ClampScroll(w1.c.startScrollTop - deltaY)]

onPointerMove(w, ev, captureOk) ==
    IF ~w.c.isPointerDown \/ w.c.pointerIdentifier # ev.pointerId THEN w
    ELSE LET deltaY == ev.clientY - w.c.startY
             w1 == IF ~w.c.isDragActive /\ Abs(deltaY) > DragThreshold
                   THEN beginDrag(w, ev.pointerId, captureOk) ELSE w
         IN  IF w1.c.isDragActive
             THEN [w1 EXCEPT !.c.suppressClick = TRUE,
                             !.e.scrollTop = ClampScroll(w1.c.startScrollTop - deltaY)]
             ELSE w1

\* The id of the preventClick closure the next installation creates.
NewListener(w) ==
    LET free == (1..(MaxPending + 1)) \ (w.e.clickListeners \cup w.timers)
    IN  CHOOSE k \in free : \A j \in free : k <= j

\* finishInteraction installing the interceptor after every gesture, dragged
\* or not.
finishInteraction_alwaysInstalls(w, ev) ==
    IF ~w.c.isPointerDown \/ w.c.pointerIdentifier # ev.pointerId THEN w
    ELSE LET w1 == IF w.c.isDragActive THEN endDrag(w) ELSE w
             w2 == [w1 EXCEPT !.e.clickListeners = @ \cup {NewListener(w1)},
                              !.timers = @ \cup {NewListener(w1)}]
         IN  [w2 EXCEPT !.c.isPointerDown = FALSE,
                        !.c.pointerIdentifier = NoPointer,
                        !.c.suppressClick = FALSE]

\* finishInteraction without the pointer-id half of its guard: the pointerup
\* of any pointer ends the gesture.
finishInteraction_anyPointer(w, ev) ==
    IF ~w.c.isPointerDown THEN w
    ELSE LET w1 == IF w.c.isDragActive THEN endDrag(w) ELSE w
             w2 == IF w.c.isDragActive /\ w1.c.suppressClick
                   THEN [w1 EXCEPT !.e.clickListeners = @ \cup {NewListener(w1)},
                                   !.timers = @ \cup {NewListener(w1)}]
                   ELSE w1
         IN  [w2 EXCEPT !.c.isPointerDown = FALSE,
                        !.c.pointerIdentifier = NoPointer,
                        !.c.suppressClick = FALSE]

finishInteraction(w, ev) ==
    IF ~w.c.isPointerDown \/ w.c.pointerIdentifier # ev.pointerId THEN w
    ELSE LET w1 == IF w.c.isDragActive THEN endDrag(w) ELSE w
             w2 == IF w.c.isDragActive /\ w1.c.suppressClick
                   THEN [w1 EXCEPT !.e.clickListeners = @ \cup {NewListener(w1)},
                                   !.timers = @ \cup {NewListener(w1)}]
                   ELSE w1
         IN  [w2 EXCEPT !.c.isPointerDown = FALSE,
                        !.c.pointerIdentifier = NoPointer,
                        !.c.suppressClick = FALSE]

\* cancelInteraction that ends the drag but forgets isPointerDown = false.
cancelInteraction_staysDown(w, ev) ==
    IF ~w.c.isPointerDown \/ w.c.pointerIdentifier # ev.pointerId THEN w
    ELSE LET w1 == IF w.c.isDragActive THEN endDrag(w) ELSE w
         IN  [w1 EXCEPT !.c.suppressClick = FALSE]

\* cancelInteraction doing what finishInteraction does (the pointerup
\* handler registered for pointerleave and pointercancel too).
cancelInteraction_asFinish(w, ev) ==
    IF ~w.c.isPointerDown \/ w.c.pointerIdentifier # ev.pointerId THEN w
    ELSE LET w1 == IF w.c.isDragActive THEN endDrag(w) ELSE w
             w2 == IF w.c.isDragActive /\ w1.c.suppressClick
                   THEN [w1 EXCEPT !.e.clickListeners = @ \cup {NewListener(w1)},
                                   !.timers = @ \cup {NewListener(w1)}]
                   ELSE w1
         IN  [w2 EXCEPT !.c.isPointerDown = FALSE,
                        !.c.pointerIdentifier = NoPointer,
                        !.c.suppressClick = FALSE]

cancelInteraction(w, ev) ==
    IF ~w.c.isPointerDown \/ w.c.pointerIdentifier # ev.pointerId THEN w
    ELSE LET w1 == IF w.c.isDragActive THEN endDrag(w) ELSE w
         IN  [w1 EXCEPT !.c.isPointerDown = FALSE,
                        !.c.pointerIdentifier = NoPointer,
                        !.c.suppressClick = FALSE]

\* The capturing preventClick listeners run first: the click is cancelled
\* (preventDefault, stopPropagation) when at least one is installed.
ClickCancelled(w) == w.e.clickListeners # {}

\* A timer callback that runs but leaves its listener installed.
removePreventClick_keepsListener(w, k) ==
    [w EXCEPT !.timers = @ \ {k}]

\* The timer callback of listener k: removeEventListener("click", preventClick).
removePreventClick(w, k) ==
    [w EXCEPT !.e.clickListeners = @ \ {k}, !.timers = @ \ {k}]

\* ------------------------------------------------------ history variables
\* The event's pointer is the one that owns the gesture.
Owning(w, ev) == w.c.isPointerDown /\ w.c.pointerIdentifier = ev.pointerId

\* lastEvent after a step: which listener ran, the phase it found, whether the
\* event passed the handler's ownership guard (onPointerDown has none), its
\* displacement from startY (moves of the owning pointer) and, for a
\* pointerdown handled in Idle, what the filters looked at.
LastOf(kind, ev, pre, cancelled) ==
    LET filtered == kind = "pointerdown" /\ Phase(pre.c) = "Idle"
    IN  [kind |-> kind, phase |-> Phase(pre.c),
         own |-> kind # "pointerdown" /\ Owning(pre, ev),
         dy |-> IF kind = "pointermove" /\ Owning(pre, ev)
                THEN ev.clientY - pre.c.startY ELSE 0,
         pointerType |-> IF filtered THEN ev.pointerType ELSE Null,
         button |-> IF filtered THEN ev.button ELSE 0,
         target |-> IF filtered THEN ev.target ELSE Null,
         cancelled |-> cancelled]

\* gesture after a step. A gesture begins when a pointerdown leaves Idle; it
\* is a plain click while every later event is a move of the owning pointer
\* with |dy| <= 2, or its pointerup. The container as it was before the
\* gesture is kept while the gesture is a plain click. scrolled: the drag in
\* progress has changed the scroll offset.
GestureAfter(kind, ev, pre, post) ==
    IF kind = "pointerdown" /\ ~pre.c.isPointerDown /\ post.c.isPointerDown
    THEN [plain |-> TRUE,
          userSelect |-> pre.userSelect, scrollTop |-> pre.e.scrollTop,
          hasActiveClass |-> pre.e.hasActiveClass,
          clickListeners |-> pre.e.clickListeners, clicks |-> -1,
          scrolled |-> FALSE]
    ELSE LET small == Abs(ev.clientY - pre.c.startY) <= 2
             plain == /\ gesture.plain /\ Owning(pre, ev)
                      /\ \/ kind = "pointermove" /\ small
                         \/ kind = "pointerup"
             dragUp == kind = "pointerup" /\ Owning(pre, ev) /\ pre.c.isDragActive
         IN  [plain |-> plain,
              userSelect |-> gesture.userSelect,
              scrollTop |-> IF plain THEN gesture.scrollTop ELSE 0,
              hasActiveClass |-> IF plain THEN gesture.hasActiveClass ELSE FALSE,
              clickListeners |-> IF plain THEN gesture.clickListeners ELSE {},
              clicks |-> IF dragUp THEN 0 ELSE gesture.clicks,
              scrolled |-> /\ post.c.isDragActive
                           /\ \/ gesture.scrolled
                              \/ post.e.scrollTop # pre.e.scrollTop]

\* gesture.clicks counts the clicks dispatched since the pointerup that ended
\* the drag of the last gesture (-1: no drag was ended by a pointerup); it
\* stops counting at 2.
ClicksAfter(n) == IF n \in {0, 1} THEN n + 1 ELSE n

\* ------------------------------------------------------------------- Init
\* The state after the effect ran: the closure variables as declared and the
\* five listeners registered; the page as it is at that moment.
Init ==
    /\ attached = TRUE
    /\ c = [isPointerDown |-> FALSE, isDragActive |-> FALSE,
            suppressClick |-> FALSE, pointerIdentifier |-> NoPointer,
            startY |-> 0, startScrollTop |-> 0, previousUserSelect |-> Null]
    /\ \E top \in ScrollOffsets :
          e = [scrollTop |-> top, hasActiveClass |-> FALSE, capture |-> {},
               clickListeners |-> {}]
    /\ userSelect \in UserSelectValues
    /\ timers = {}
    /\ pressed = {}
    /\ lastEvent = [kind |-> "attach", phase |-> "Idle", own |-> FALSE,
                    dy |-> 0, pointerType |-> Null, button |-> 0,
                    target |-> Null, cancelled |-> FALSE]
    /\ gesture = [plain |-> FALSE,
                  userSelect |-> userSelect, scrollTop |-> 0,
                  hasActiveClass |-> FALSE, clickListeners |-> {}, clicks |-> -1,
                  scrolled |-> FALSE]
    /\ instance =
          [i \in Instances |->
              [attached |-> TRUE,
               c |-> [isPointerDown |-> FALSE, isDragActive |-> FALSE,
                      suppressClick |-> FALSE, pointerIdentifier |-> NoPointer,
                      startY |-> 0, startScrollTop |-> 0,
                      previousUserSelect |-> Null],
               e |-> [scrollTop |-> 0, hasActiveClass |-> FALSE,
                      capture |-> {}, clickListeners |-> {}],
               timers |-> {}]]

\* ---------------------------------------------------------------- actions
\* The host delivers the events of one pointer in the order pointerdown,
\* pointermove*, (pointerup | pointerleave | pointercancel): pressed after the
\* event.
PressedAfter(kind, ev) ==
    IF kind = "pointerdown" THEN pressed \cup {ev.pointerId}
    ELSE IF kind \in {"pointerup", "pointerleave", "pointercancel"}
    THEN pressed \ {ev.pointerId}
    ELSE pressed

\* One handler ran to completion on event ev and left the state post.
Deliver(kind, ev, post) ==
    /\ c' = post.c
    /\ pressed' = PressedAfter(kind, ev)
    /\ e' = post.e
    /\ userSelect' = post.userSelect
    /\ timers' = post.timers
    /\ lastEvent' = LastOf(kind, ev, World, FALSE)
    /\ gesture' = GestureAfter(kind, ev, World, post)
    /\ UNCHANGED <<attached, instance>>

\* After pointerup and pointercancel the platform releases the capture of
\* that pointer (implicit release of pointer capture); a captured pointer
\* counts as being over the capturing element, so once its pointerleave has
\* been dispatched the element does not hold its capture either.
ImplicitRelease(w, id) == [w EXCEPT !.e.capture = @ \ {id}]

PointerDown ==
    /\ attached
    /\ \E ev \in DownEvents :
          LET post == onPointerDown(World, ev)
          IN  /\ ev.pointerId \notin pressed
              /\ Deliver("pointerdown", ev, post)

PointerMove ==
    /\ attached
    /\ \E ev \in MoveEvents, captureOk \in BOOLEAN :
          LET post == onPointerMove(World, ev, captureOk)
          IN  Deliver("pointermove", ev, post)

PointerUp ==
    /\ attached
    /\ \E ev \in EndEvents :
          LET post == finishInteraction(World, ev)
          IN  /\ Cardinality(post.timers) <= MaxPending
              /\ Deliver("pointerup", ev, ImplicitRelease(post, ev.pointerId))

PointerLeave ==
    /\ attached
    /\ \E ev \in EndEvents :
          LET post == cancelInteraction(World, ev)
          IN  Deliver("pointerleave", ev, ImplicitRelease(post, ev.pointerId))

PointerCancel ==
    /\ attached
    /\ \E ev \in EndEvents :
          LET post == cancelInteraction(World, ev)
          IN  Deliver("pointercancel", ev, ImplicitRelease(post, ev.pointerId))

\* A click is dispatched on the container.
Click ==
    /\ attached
    /\ lastEvent' = LastOf("click", NoEvent, World, ClickCancelled(World))
    /\ gesture' = [gesture EXCEPT !.clicks = ClicksAfter(@)]
    /\ UNCHANGED <<attached, c, e, userSelect, timers, pressed, instance>>

\* The zero-delay timer of one installation fires.
TimerFire ==
    \E k \in timers :
        /\ e' = removePreventClick(World, k).e
        /\ timers' = removePreventClick(World, k).timers
        /\ lastEvent' = LastOf("timer", NoEvent, World, FALSE)
        /\ UNCHANGED <<attached, c, userSelect, pressed, gesture, instance>>

\* The effect cleanup: endDrag(), then the five listeners are removed.
Detach ==
    /\ attached
    /\ attached' = FALSE
    /\ c' = endDrag(World).c
    /\ e' = endDrag(World).e
    /\ userSelect' = endDrag(World).userSelect
    /\ timers' = endDrag(World).timers
    /\ lastEvent' = LastOf("detach", NoEvent, World, FALSE)
    /\ gesture' = GestureAfter("detach", NoEvent, World, endDrag(World))
    /\ UNCHANGED <<pressed, instance>>

Next ==
    \/ PointerDown
    \/ PointerMove
    \/ PointerUp
    \/ PointerLeave
    \/ PointerCancel
    \/ Click
    \/ TimerFire
    \/ Detach

Spec == Init /\ [][Next]_vars

\* The zero-delay timer of installation k fires.
TimerFires(k) == TimerFire /\ k \in timers /\ k \notin timers'

\* A callback scheduled with setTimeout(..., 0) is run by the event loop: it
\* cannot stay pending for ever.
LiveSpec == Spec /\ \A k \in ListenerIds : WF_vars(TimerFires(k))

\* ------------------------------------------------- the two attachments
\* App attaches the controller twice (to the star list, with the ignore
\* selector, and to the details panel): two closures, two containers, one
\* document.body.style.userSelect. Each attachment is driven by its own
\* pointer, pointer i on container i, its events in the order pointerdown,
\* pointermove*, (pointerup | pointerleave | pointercancel).

\* The pointerdowns container i receives. No target of the details panel
\* lies in a search bar (it is attached without a selector).
InstanceDownEvents(i) ==
    {ev \in DownEvents : ev.pointerId = i /\ (i = 2 => ev.target = "item")}

\* One handler of attachment i ran to completion and left the state post.
InstanceDeliver(i, kind, ev, post) ==
    /\ instance' = [instance EXCEPT ![i].c = post.c, ![i].e = post.e,
                                    ![i].timers = post.timers]
    /\ userSelect' = post.userSelect
    /\ pressed' = PressedAfter(kind, ev)
    /\ UNCHANGED <<attached, c, e, timers, lastEvent, gesture>>

InstancePointerDown ==
    \E i \in Instances :
        /\ instance[i].attached
        /\ \E ev \in InstanceDownEvents(i) :
              /\ ev.pointerId \notin pressed
              /\ InstanceDeliver(i, "pointerdown", ev, onPointerDown(WorldOf(i), ev))

InstancePointerMove ==
    \E i \in Instances :
        /\ instance[i].attached
        /\ \E ev \in MoveEvents, captureOk \in BOOLEAN :
              /\ ev.pointerId = i /\ i \in pressed
              /\ InstanceDeliver(i, "pointermove", ev,
                                 onPointerMove(WorldOf(i), ev, captureOk))

InstancePointerUp ==
    \E i \in Instances :
        /\ instance[i].attached
        /\ \E ev \in EndEvents :
              LET post == finishInteraction(WorldOf(i), ev)
              IN  /\ ev.pointerId = i /\ i \in pressed
                  /\ Cardinality(post.timers) <= MaxPending
                  /\ InstanceDeliver(i, "pointerup", ev, ImplicitRelease(post, i))

InstancePointerLeave ==
    \E i \in Instances :
        /\ instance[i].attached
        /\ \E ev \in EndEvents :
              LET post == cancelInteraction(WorldOf(i), ev)
              IN  /\ ev.pointerId = i /\ i \in pressed
                  /\ InstanceDeliver(i, "pointerleave", ev, ImplicitRelease(post, i))

InstancePointerCancel ==
    \E i \in Instances :
        /\ instance[i].attached
        /\ \E ev \in EndEvents :
              LET post == cancelInteraction(WorldOf(i), ev)
              IN  /\ ev.pointerId = i /\ i \in pressed
                  /\ InstanceDeliver(i, "pointercancel", ev, ImplicitRelease(post, i))

\* The zero-delay timer of one installation on container i fires.
InstanceTimerFire ==
    \E i \in Instances : \E k \in instance[i].timers :
        /\ instance' = [instance EXCEPT
                            ![i].e = removePreventClick(WorldOf(i), k).e,
                            ![i].timers = removePreventClick(WorldOf(i), k).timers]
        /\ UNCHANGED <<attached, c, e, userSelect, timers, pressed, lastEvent,
                       gesture>>

\* The effect cleanup of attachment i.
InstanceDetach ==
    \E i \in Instances :
        /\ instance[i].attached
        /\ instance' = [instance EXCEPT ![i].attached = FALSE,
                                        ![i].c = endDrag(WorldOf(i)).c,
                                        ![i].e = endDrag(WorldOf(i)).e]
        /\ userSelect' = endDrag(WorldOf(i)).userSelect
        /\ UNCHANGED <<attached, c, e, timers, pressed, lastEvent, gesture>>

NextTwo ==
    \/ InstancePointerDown
    \/ InstancePointerMove
    \/ InstancePointerUp
    \/ InstancePointerLeave
    \/ InstancePointerCancel
    \/ InstanceTimerFire
    \/ InstanceDetach

\* The single-attachment variables stay as Init leaves them; gesture.userSelect
\* keeps the text-selection mode of the page before any drag.
InitTwo == Init /\ e.scrollTop = 0

TwoSpec == InitTwo /\ [][NextTwo]_vars

\* ------------------------------------------------------------ type check
TypeOK ==
    /\ attached \in BOOLEAN
    /\ c.isPointerDown \in BOOLEAN /\ c.isDragActive \in BOOLEAN
    /\ c.suppressClick \in BOOLEAN
    /\ c.pointerIdentifier \in PointerIds \cup {NoPointer}
    /\ c.startY \in Ys /\ c.startScrollTop \in ScrollOffsets
    /\ c.previousUserSelect \in UserSelectValues \cup {Null, "none"}
    /\ e.scrollTop \in ScrollOffsets /\ e.hasActiveClass \in BOOLEAN
    /\ e.capture \subseteq PointerIds /\ e.clickListeners \subseteq ListenerIds
    /\ e.clickListeners = timers
    /\ userSelect \in UserSelectValues \cup {"none"}
    /\ timers \subseteq ListenerIds
    /\ pressed \subseteq PointerIds
    /\ c.isPointerDown => c.pointerIdentifier \in pressed
    /\ gesture.scrolled \in BOOLEAN
    /\ DOMAIN instance = Instances

\* ------------------------------------------------------------- the claims

\* C1: while a pointer owns the gesture (Armed or Dragging), a pointerdown of
\* another pointer id (one the host can deliver: that pointer is not pressed)
\* leaves the owning pointer id, startY, startScrollTop and suppressClick as
\* they are.
C1_SecondPointerDownIgnored ==
    (attached /\ c.isPointerDown) =>
        \A ev \in DownEvents :
            (ev.pointerId # c.pointerIdentifier /\ ev.pointerId \notin pressed) =>
                LET post == onPointerDown(World, ev)
                IN  /\ post.c.pointerIdentifier = c.pointerIdentifier
                    /\ post.c.startY = c.startY
                    /\ post.c.startScrollTop = c.startScrollTop
                    /\ post.c.suppressClick = c.suppressClick

\* C2: after the pointerup of the owning pointer that ends a drag, the first
\* click dispatched on the container is cancelled and the second one is
\* delivered, whenever they arrive relative to the zero-delay timer.
C2_NextClickCancelledOnce ==
    lastEvent.kind = "click" =>
        /\ gesture.clicks = 1 => lastEvent.cancelled
        /\ gesture.clicks = 2 => ~lastEvent.cancelled

\* C3: whenever the controller is Idle (or has been detached), the global
\* text-selection mode is the one it had just before the gesture began.
C3_SelectionModeRoundTrip ==
    (Phase(c) = "Idle" \/ ~attached) => userSelect = gesture.userSelect

\* C3 witness: a drag has just been cancelled, the controller is Idle again
\* and the mode is back to its value from before the gesture.
C3_Witness ==
    /\ attached /\ Phase(c) = "Idle"
    /\ lastEvent.kind = "pointercancel" /\ lastEvent.phase = "Dragging"
    /\ userSelect = gesture.userSelect /\ userSelect = ""

\* C4: the cleanup step, taken while Dragging, puts the saved mode back and
\* removes the marker; taken while Idle or Armed it changes neither.
C4_DetachRestores ==
    [][(attached /\ ~attached') =>
          IF c.isDragActive
          THEN /\ userSelect' = c.previousUserSelect
               /\ ~e'.hasActiveClass
               /\ ~c'.isDragActive
          ELSE /\ userSelect' = userSelect
               /\ e'.hasActiveClass = e.hasActiveClass]_vars

\* C4 witness: the controller was detached in the middle of a drag.
C4_Witness ==
    /\ ~attached /\ lastEvent.kind = "detach" /\ lastEvent.phase = "Dragging"
    /\ ~e.hasActiveClass /\ userSelect = gesture.userSelect

\* C5: during and after a plain click (a pointerdown out of Idle, moves of
\* that pointer within the threshold, its pointerup) no drag begins, no click
\* interceptor is added, and the text-selection mode, the scroll offset and
\* the marker are what they were before the pointerdown.
C5_PlainClickTouchesNothing ==
    gesture.plain =>
        /\ ~c.isDragActive
        /\ e.clickListeners \subseteq gesture.clickListeners
        /\ timers \subseteq gesture.clickListeners
        /\ userSelect = gesture.userSelect
        /\ e.scrollTop = gesture.scrollTop
        /\ e.hasActiveClass = gesture.hasActiveClass

\* C5 witness: a plain click has just been completed by its pointerup.
C5_Witness ==
    /\ gesture.plain /\ lastEvent.kind = "pointerup" /\ lastEvent.own
    /\ lastEvent.phase = "Armed" /\ Phase(c) = "Idle"

\* C6 as stated: a pointerdown handled while Idle that has a non-primary
\* button or a touch pointer type, of any pointer type, leaves the phase Idle
\* and records no gesture field.
C6_NonPrimaryOrTouchStaysIdle ==
    [][(/\ attached /\ Phase(c) = "Idle"
        /\ lastEvent'.kind = "pointerdown"
        /\ (lastEvent'.button # 0 \/ lastEvent'.pointerType = "touch")) =>
          (Phase(c') = "Idle" /\ c' = c)]_vars

\* C6 as amended: a pointerdown received while Idle that is a touch pointer,
\* or a mouse pointer with a non-primary button, leaves the phase Idle and
\* records no gesture field; a pen pointer arms the controller whatever its
\* button (outside the ignored sub-element).
C6_MouseNonPrimaryOrTouchStaysIdle ==
    /\ (attached /\ Phase(c) = "Idle") =>
          \A ev \in DownEvents :
              LET post == onPointerDown(World, ev)
              IN  /\ (ev.pointerType = "touch"
                        \/ (ev.pointerType = "mouse" /\ ev.button # 0)) =>
                        post = World
                  /\ (ev.pointerType = "pen" /\ ev.target = "item") =>
                        /\ Phase(post.c) = "Armed"
                        /\ post.c.pointerIdentifier = ev.pointerId
    /\ (/\ lastEvent.kind = "pointerdown" /\ lastEvent.phase = "Idle"
        /\ \/ lastEvent.pointerType = "touch"
           \/ lastEvent.pointerType = "mouse" /\ lastEvent.button # 0) =>
          Phase(c) = "Idle"

\* C6 witness: a mouse pointerdown with a non-primary button was handled in
\* Idle and the controller is still Idle.
C6_Witness ==
    /\ lastEvent.kind = "pointerdown" /\ lastEvent.phase = "Idle"
    /\ lastEvent.pointerType = "mouse" /\ lastEvent.button # 0
    /\ lastEvent.target = "item" /\ Phase(c) = "Idle"

\* C7: while Armed, a move of the owning pointer with |dy| <= 2 leaves the
\* phase Armed and the scroll offset unchanged, a move with |dy| > 2 enters
\* Dragging, and no other event takes Armed to Dragging.
C7_ThresholdDecidesDrag ==
    (attached /\ Phase(c) = "Armed") =>
        /\ \A ev \in MoveEvents, captureOk \in BOOLEAN :
              LET post == onPointerMove(World, ev, captureOk)
                  dy == ev.clientY - c.startY
              IN  /\ (Owning(World, ev) /\ Abs(dy) <= 2) =>
                        /\ Phase(post.c) = "Armed"
                        /\ post.e.scrollTop = e.scrollTop
                  /\ (Owning(World, ev) /\ Abs(dy) > 2) =>
                        Phase(post.c) = "Dragging"
                  /\ ~Owning(World, ev) => Phase(post.c) = "Armed"
        /\ \A ev \in DownEvents : Phase(onPointerDown(World, ev).c) # "Dragging"
        /\ \A ev \in EndEvents :
              /\ Phase(finishInteraction(World, ev).c) # "Dragging"
              /\ Phase(cancelInteraction(World, ev).c) # "Dragging"

\* C7 witness: a move of the owning pointer exactly 2px from startY was
\* handled while Armed, and the controller is still Armed.
C7_Witness ==
    /\ lastEvent.kind = "pointermove" /\ lastEvent.phase = "Armed"
    /\ lastEvent.own /\ Abs(lastEvent.dy) = 2
    /\ Phase(c) = "Armed" /\ e.scrollTop = c.startScrollTop

\* C8: every move of the owning pointer handled in or into Dragging assigns
\* startScrollTop - dy to the scroll offset (which the element clamps to its
\* range), startScrollTop and startY being what the accepted pointerdown
\* read; and no event takes Dragging to Armed while the controller is
\* attached.
C8_ScrollFollowsPointer ==
    attached =>
        /\ \A ev \in MoveEvents, captureOk \in BOOLEAN :
              LET post == onPointerMove(World, ev, captureOk)
                  dy == ev.clientY - c.startY
              IN  /\ (Owning(World, ev) /\ Phase(post.c) = "Dragging") =>
                        post.e.scrollTop = ClampScroll(c.startScrollTop - dy)
                  /\ Phase(c) = "Dragging" => Phase(post.c) = "Dragging"
        /\ \A ev \in DownEvents :
              LET post == onPointerDown(World, ev)
              IN  /\ post.c # c =>
                        /\ post.c.startScrollTop = e.scrollTop
                        /\ post.c.startY = ev.clientY
                  /\ Phase(c) = "Dragging" => Phase(post.c) = "Dragging"
        /\ \A ev \in EndEvents :
              Phase(c) = "Dragging" =>
                  /\ Phase(finishInteraction(World, ev).c) # "Armed"
                  /\ Phase(cancelInteraction(World, ev).c) # "Armed"

\* C8 witness: during a drag the owning pointer came back within 2px of
\* startY but not onto it, and the scroll offset is startScrollTop - dy.
C8_Witness ==
    /\ lastEvent.kind = "pointermove" /\ lastEvent.phase = "Dragging"
    /\ lastEvent.own /\ Abs(lastEvent.dy) <= 2 /\ lastEvent.dy # 0
    /\ Phase(c) = "Dragging"
    /\ e.scrollTop = c.startScrollTop - lastEvent.dy

\* C9: on every event, cancelInteraction (pointerleave, pointercancel) leaves
\* the controller, the marker, the capture, the scroll offset and the
\* text-selection mode as finishInteraction (pointerup) would, installs no
\* click interceptor and schedules no timer: from Armed or Dragging the owning
\* pointer's cancel ends in Idle with the pointer id cleared, a drag is ended
\* with the marker removed and the saved mode restored, and a click after the
\* cancel is cancelled only if one before it would have been.
C9_CancelIsUpWithoutVeto ==
    attached =>
        \A ev \in EndEvents :
            LET cancel == cancelInteraction(World, ev)
                up == finishInteraction(World, ev)
            IN  /\ cancel.c = up.c
                /\ cancel.userSelect = up.userSelect
                /\ cancel.e.hasActiveClass = up.e.hasActiveClass
                /\ cancel.e.scrollTop = up.e.scrollTop
                /\ cancel.e.capture = up.e.capture
                /\ cancel.e.clickListeners = e.clickListeners
                /\ cancel.timers = timers
                /\ ClickCancelled(cancel) = ClickCancelled(World)
                /\ Owning(World, ev) =>
                      /\ Phase(cancel.c) = "Idle"
                      /\ cancel.c.pointerIdentifier = NoPointer
                      /\ Phase(c) = "Dragging" =>
                            /\ ~cancel.e.hasActiveClass
                            /\ cancel.userSelect = c.previousUserSelect
                            /\ cancel.c.previousUserSelect = Null

\* C9 witness: a drag that would have had its click vetoed was ended by
\* pointercancel, and a click dispatched now is delivered.
C9_Witness ==
    /\ lastEvent.kind = "pointercancel" /\ lastEvent.phase = "Dragging"
    /\ lastEvent.own /\ Phase(c) = "Idle"
    /\ ~e.hasActiveClass /\ ~ClickCancelled(World)

\* C10: a step changes the scroll offset only if it is a pointermove that
\* ends in Dragging; no other step does (pointerdown, pointerup,
\* pointerleave, pointercancel, the cleanup, a click, the timer).
C10_ScrollOnlyWhileDragging ==
    [][e'.scrollTop # e.scrollTop =>
          /\ attached
          /\ lastEvent'.kind = "pointermove" /\ lastEvent'.own
          /\ Phase(c') = "Dragging"]_vars

\* C10 witness: the move that crossed the threshold changed the scroll offset.
C10_Witness ==
    /\ lastEvent.kind = "pointermove" /\ lastEvent.phase = "Armed"
    /\ Phase(c) = "Dragging" /\ e.scrollTop # c.startScrollTop

\* C11: in every state a saved text-selection mode is held (previousUserSelect
\* is not null) exactly when the controller is Dragging; it is captured only
\* by the pointermove that takes Armed to Dragging, as the mode of that
\* moment, and never again during the drag; it is cleared only by the step
\* that leaves Dragging, which puts it back as the global mode.
C11_SavedModeOnlyWhileDragging ==
    /\ [](c.previousUserSelect # Null <=> c.isDragActive)
    /\ [][c'.previousUserSelect # c.previousUserSelect =>
            \/ /\ Phase(c) = "Armed" /\ Phase(c') = "Dragging"
               /\ lastEvent'.kind = "pointermove" /\ lastEvent'.own
               /\ c.previousUserSelect = Null
               /\ c'.previousUserSelect = userSelect
            \/ /\ Phase(c) = "Dragging" /\ Phase(c') # "Dragging"
               /\ c'.previousUserSelect = Null
               /\ userSelect' = c.previousUserSelect]_vars

\* C11 witness: a drag has been ended by the pointerup of its pointer, the
\* saved mode is cleared and the global mode is the one from before the drag.
C11_Witness ==
    /\ lastEvent.kind = "pointerup" /\ lastEvent.own
    /\ lastEvent.phase = "Dragging" /\ Phase(c) = "Idle"
    /\ c.previousUserSelect = Null /\ userSelect = "text"

\* C12: when setPointerCapture throws, the pointermove handler ends normally
\* and leaves what it leaves when the capture is granted, the capture set
\* apart: crossing the threshold the phase becomes Dragging, the marker is
\* set, the mode is "none" and the scroll offset follows the pointer; a
\* later move still scrolls; and the pointerup, pointercancel or cleanup
\* that ends a drag without capture puts back the mode, removes the marker
\* and leaves the capture set as it is.
C12_DragWorksWithoutCapture ==
    attached =>
        /\ \A ev \in MoveEvents :
              LET with == onPointerMove(World, ev, TRUE)
                  without == onPointerMove(World, ev, FALSE)
                  dy == ev.clientY - c.startY
              IN  /\ without = [with EXCEPT !.e.capture = e.capture]
                  /\ (Phase(c) = "Armed" /\ Owning(World, ev) /\ Abs(dy) > 2) =>
                        /\ Phase(without.c) = "Dragging"
                        /\ without.e.hasActiveClass
                        /\ without.userSelect = "none"
                        /\ without.e.scrollTop = ClampScroll(c.startScrollTop - dy)
                        /\ \A ev2 \in MoveEvents :
                              ev2.pointerId = ev.pointerId =>
                                  onPointerMove(without, ev2, FALSE).e.scrollTop
                                      = ClampScroll(c.startScrollTop
                                                      - (ev2.clientY - c.startY))
                        /\ \A up \in EndEvents :
                              up.pointerId = ev.pointerId =>
                                  LET fin == finishInteraction(without, up)
                                      can == cancelInteraction(without, up)
                                  IN  /\ Phase(fin.c) = "Idle" /\ Phase(can.c) = "Idle"
                                      /\ fin.userSelect = userSelect
                                      /\ can.userSelect = userSelect
                                      /\ ~fin.e.hasActiveClass /\ ~can.e.hasActiveClass
                                      /\ fin.e.capture = e.capture
                                      /\ can.e.capture = e.capture
                        /\ endDrag(without).userSelect = userSelect
                        /\ ~endDrag(without).e.hasActiveClass
        /\ (Phase(c) = "Dragging" /\ c.pointerIdentifier \notin e.capture) =>
              /\ e.hasActiveClass /\ userSelect = "none"
              /\ endDrag(World).e.capture = e.capture
              /\ endDrag(World).userSelect = c.previousUserSelect
              /\ ~endDrag(World).e.hasActiveClass

\* C12 witness: the capture request of the move that crossed the threshold
\* failed, and the controller is Dragging with the scroll offset changed.
C12_Witness ==
    /\ lastEvent.kind = "pointermove" /\ lastEvent.phase = "Armed"
    /\ Phase(c) = "Dragging" /\ e.capture = {}
    /\ e.hasActiveClass /\ userSelect = "none"
    /\ e.scrollTop # c.startScrollTop

\* C13: a pointermove, pointerup, pointerleave or pointercancel whose pointer
\* is not the owning one, or that arrives while Idle, is handled without any
\* write: the closure variables (phase, owning pointer id, startY,
\* startScrollTop, suppressClick, saved mode), the scroll offset, the marker,
\* the global text-selection mode, the click interceptors and their timers
\* are all as before.
C13_ForeignEventsChangeNothing ==
    attached =>
        /\ \A ev \in MoveEvents, captureOk \in BOOLEAN :
              (Phase(c) = "Idle" \/ ev.pointerId # c.pointerIdentifier) =>
                  onPointerMove(World, ev, captureOk) = World
        /\ \A ev \in EndEvents :
              (Phase(c) = "Idle" \/ ev.pointerId # c.pointerIdentifier) =>
                  /\ finishInteraction(World, ev) = World
                  /\ cancelInteraction(World, ev) = World
        /\ (/\ lastEvent.kind \in {"pointermove", "pointerup",
                                   "pointerleave", "pointercancel"}
            /\ ~lastEvent.own) => Phase(c) = lastEvent.phase

\* C13 witness: the pointerup of a pointer that does not own the gesture was
\* handled during a drag, and the drag goes on.
C13_Witness ==
    /\ lastEvent.kind = "pointerup" /\ ~lastEvent.own
    /\ lastEvent.phase = "Dragging" /\ Phase(c) = "Dragging"
    /\ e.hasActiveClass /\ userSelect = "none" /\ c.suppressClick

\* C14: with the ignore selector configured, a pointerdown whose target lies
\* inside the ignored sub-element writes nothing, whatever its pointer type
\* and button: received in Idle it leaves the phase Idle and records no
\* gesture field, and a move, up, leave or cancel of that pointer that
\* follows changes nothing either.
C14_IgnoredTargetNeverArms ==
    /\ attached =>
          \A ev \in DownEvents :
              Closest(ev.target, ignoreSelector) =>
                  LET post == onPointerDown(World, ev)
                  IN  /\ post = World
                      /\ Phase(c) = "Idle" =>
                            /\ Phase(post.c) = "Idle"
                            /\ \A mv \in MoveEvents, captureOk \in BOOLEAN :
                                  mv.pointerId = ev.pointerId =>
                                      onPointerMove(post, mv, captureOk) = World
                            /\ \A up \in EndEvents :
                                  up.pointerId = ev.pointerId =>
                                      /\ finishInteraction(post, up) = World
                                      /\ cancelInteraction(post, up) = World
    /\ (/\ lastEvent.kind = "pointerdown" /\ lastEvent.phase = "Idle"
        /\ lastEvent.target = "search") => Phase(c) = "Idle"

\* C14 witness: a pen pointerdown on the search bar, one that would arm the
\* controller anywhere else in the container, was handled in Idle and the
\* controller is still Idle.
C14_Witness ==
    /\ lastEvent.kind = "pointerdown" /\ lastEvent.phase = "Idle"
    /\ lastEvent.target = "search" /\ lastEvent.pointerType = "pen"
    /\ Phase(c) = "Idle" /\ c.pointerIdentifier = NoPointer
    /\ pressed # {}

\* C15: with the two attachments sharing document.body.style.userSelect,
\* each driven by its own pointer, whenever neither controller is Dragging
\* the global text-selection mode is the one the page had before any drag.
C15_NoLeakAcrossInstances ==
    (\A i \in Instances : ~instance[i].c.isDragActive) =>
        userSelect = gesture.userSelect

\* C16: the pointerup of the owning pointer that ends a drag which changed
\* the scroll offset takes the controller to Idle and installs a click
\* interceptor, whatever events came before it (pointerdowns of other
\* pointers during the drag included).
C16_DragUpAlwaysVetoesClick ==
    [][(/\ attached /\ gesture.scrolled
        /\ lastEvent'.kind = "pointerup" /\ lastEvent'.own
        /\ lastEvent'.phase = "Dragging") =>
          /\ Phase(c') = "Idle"
          /\ e'.clickListeners \ e.clickListeners # {}]_vars

\* C17: every installed click interceptor is eventually removed, clicks or
\* no clicks (the zero-delay timer being fair); an interceptor is installed
\* exactly as long as its one removal is pending and only the timer step
\* removes it, using that removal up; and a click dispatched when no
\* interceptor is installed is delivered.
C17_InterceptorEventuallyRemoved ==
    /\ \A k \in ListenerIds :
          (k \in e.clickListeners) ~> (k \notin e.clickListeners)
    /\ [](e.clickListeners = timers)
    /\ [][\A k \in ListenerIds :
              (k \in e.clickListeners /\ k \notin e'.clickListeners) =>
                  (lastEvent'.kind = "timer" /\ k \notin timers')]_vars
    /\ [][(lastEvent'.kind = "click" /\ e.clickListeners = {}) =>
              ~lastEvent'.cancelled]_vars

\* C17 witness: the interceptor installed after a drag has been removed by
\* its timer, no click having been dispatched since the drag ended.
C17_Witness ==
    /\ lastEvent.kind = "timer" /\ gesture.clicks = 0
    /\ e.clickListeners = {} /\ timers = {}

\* C18: whenever the controller is not Dragging, the container holds no
\* pointer capture (every capture it holds was obtained by a beginDrag, for
\* the pointer id passed to it).
C18_CaptureReleasedAfterDrag ==
    ~c.isDragActive => e.capture = {}

\* C19: with the events of each pointer delivered in the order pointerdown,
\* pointermove*, (pointerup | pointerleave | pointercancel), whenever no
\* pointer pressed on the container is still awaiting its terminal event the
\* attached controller is Idle (isPointerDown and isDragActive false, no
\* pointer id recorded); hence, in a behaviour where the pointers are all
\* released again and again, every gesture returns to Idle (or the
\* controller is detached).
C19_NeverStuckOutsideIdle ==
    /\ []((attached /\ pressed = {}) =>
            /\ Phase(c) = "Idle"
            /\ ~c.isPointerDown /\ ~c.isDragActive
            /\ c.pointerIdentifier = NoPointer)
    /\ []<>(pressed = {}) =>
          ((attached /\ Phase(c) # "Idle") ~> (~attached \/ Phase(c) = "Idle"))

\* C19 witness: a drag was ended by the pointerleave of its pointer, the last
\* pointer still pressed, and the controller is Idle with no pointer recorded.
C19_Witness ==
    /\ attached /\ pressed = {}
    /\ lastEvent.kind = "pointerleave" /\ lastEvent.own
    /\ lastEvent.phase = "Dragging"
    /\ Phase(c) = "Idle" /\ c.pointerIdentifier = NoPointer

\* C20: in every state the marker class is on the container exactly when
\* isDragActive holds; and while the controller is attached, isDragActive
\* implies that a pointer is recorded as down (isPointerDown, with a pointer
\* id that is not null).
C20_MarkerIffDragging ==
    /\ e.hasActiveClass <=> c.isDragActive
    /\ (attached /\ c.isDragActive) =>
          (c.isPointerDown /\ c.pointerIdentifier # NoPointer)

\* C20 witness: during a drag a second pointer's pointerdown was accepted;
\* the marker is still set and a pointer is still recorded as down.
C20_Witness ==
    /\ attached /\ lastEvent.kind = "pointerdown"
    /\ lastEvent.phase = "Dragging" /\ ~c.suppressClick
    /\ c.isDragActive /\ e.hasActiveClass
    /\ c.isPointerDown /\ c.pointerIdentifier # NoPointer
====
